---- MODULE Spec2Model ----
(***************************************************************************)
(* Model of pump-script.py: the adaptive duty-cycle controller of a sump   *)
(* pump (class IntelligentPumpController and main).                        *)
(*                                                                         *)
(* Units.  working_time is counted in sampling ticks of 0.5 s (the code    *)
(* adds 0.5 per working sample), so a threshold of T seconds is the tick   *)
(* count 2*T.  rain_1h is kept in tenths of a millimetre per hour, so the  *)
(* 2.5 mm/h threshold is 25.  Off-times are whole seconds.  Python's None  *)
(* is the value None (-1) for the integer fields and NoWeather for the     *)
(* weather snapshot.  Text (file contents, argv) is a sequence of          *)
(* one-character strings.                                                  *)
(***************************************************************************)
EXTENDS Integers, Sequences, FiniteSets, TLC

VARIABLES
    cycle_count,        \* self.cycle_count
    current_off_time,   \* self.current_off_time
    manual_override,    \* self.manual_override (None or seconds)
    override_command,   \* self.override_command (NoCommand or "pump_now")
    weather_data,       \* self.weather_data
    pump_status,        \* self.pump_status
    is_running,         \* self.is_running
    pc,                 \* position of the controller task
    performance,        \* performance_data['working_time'] of the cycle, in ticks
    next_off_time,      \* run_cycle's local next_off_time (None before it is computed)
    elapsed,            \* run_cycle's local elapsed
    command,            \* check_override_commands' local command (text read)
    configFile,         \* ~/sump_config.json
    overrideFile,       \* ~/pump_override.txt
    snapshot,           \* controller fields when save_config last ran
    notice,             \* kind of the last health-check message or override log line
    sampled,            \* telemetry was sampled in the current cycle
    cancelled,          \* the controller task received CancelledError
    relay,              \* last completed control_pump call: action and result
    attempt,            \* control_pump's loop variable attempt
    backoff,            \* seconds control_pump slept after its last attempt
    pause,              \* seconds of run_controller's last sleep
    slept,              \* seconds slept in the current wait phase
    polls,              \* check_override_commands calls in the current wait phase
    restarts,           \* process restarts so far
    deposits,           \* CLI deposits so far
    arg,                \* inputs of the last direct call of a method (policy, persistence, sampler)
    sampling,           \* monitor_pump_performance's clock and locals working_time, power_readings
    performance_data,   \* run_cycle's local performance_data when the sampler is called directly
    cli                 \* the CLI process inside create_override_command, between open and close

vars == << cycle_count, current_off_time, manual_override, override_command,
           weather_data, pump_status, is_running, pc, performance,
           next_off_time, elapsed, command, configFile, overrideFile,
           snapshot, notice, sampled, cancelled, relay, attempt, backoff,
           pause, slept, polls, restarts, deposits, arg, sampling,
           performance_data, cli >>

----------------------------------------------------------------------------
(* Configuration constants, lines 21-38                                    *)

PUMP_ON_TIME == 45
BASE_OFF_TIME == 420
MIN_OFF_TIME == 300
MAX_OFF_TIME == 86400
WORKING_POWER_THRESHOLD == 200
SHORT_RUN_THRESHOLD == 8
OPTIMAL_RUN_THRESHOLD == 15
HEAVY_LOAD_THRESHOLD == 30
HEAVY_LOAD_BASELINE == 300
HEAVY_RAIN_THRESHOLD10 == 25
CHECK_INTERVAL == 30
COOL_DOWN == 300
ERROR_PAUSE == 60
STARTUP_DELAY == 60
RELAY_ATTEMPTS == 3
RELAY_BACKOFF == 2

(* Factors in tenths: 2.0, 1.0, 0.7 (adjustment), 0.7, 0.5 (weather),      *)
(* 0.8, 0.9 (heavy load).                                                  *)
LIGHT_RAIN_FACTOR10 == 7
HEAVY_RAIN_FACTOR10 == 5

None == -1
NoWeather == [none |-> TRUE]
NoCommand == "None"
Absent == << "<absent>" >>

(* Python truthiness of an Optional[int]: None and 0 are both falsy.       *)
Truthy(x) == x # None /\ x # 0

Min(a, b) == IF a <= b THEN a ELSE b
Max(a, b) == IF a >= b THEN a ELSE b

----------------------------------------------------------------------------
(* Text                                                                    *)

RECURSIVE StartsWith(_, _)
StartsWith(s, p) ==
    IF p = << >> THEN TRUE
    ELSE IF s = << >> THEN FALSE
    ELSE Head(s) = Head(p) /\ StartsWith(Tail(s), Tail(p))

(* 'rain' in condition *)
RECURSIVE Contains(_, _)
Contains(s, p) ==
    IF StartsWith(s, p) THEN TRUE
    ELSE IF s = << >> THEN FALSE
    ELSE Contains(Tail(s), p)

RAIN == << "r", "a", "i", "n" >>

SPACE == " "
SUPERSCRIPT_TWO == "^2"
Whitespace == {" ", "\n", "\t"}
DecimalDigits == << "0", "1", "2", "3", "4", "5", "6", "7", "8", "9" >>
Uppers == << "A", "B", "C", "D", "E", "F", "G", "H", "I", "J", "K", "L", "M",
             "N", "O", "P", "Q", "R", "S", "T", "U", "V", "W", "X", "Y", "Z" >>
Lowers == << "a", "b", "c", "d", "e", "f", "g", "h", "i", "j", "k", "l", "m",
             "n", "o", "p", "q", "r", "s", "t", "u", "v", "w", "x", "y", "z" >>

IsDecimal(ch) == \E i \in 1..10 : DecimalDigits[i] = ch
DigitValue(ch) == (CHOOSE i \in 1..10 : DecimalDigits[i] = ch) - 1

(* str.lower() *)
LowerChar(ch) ==
    IF \E i \in 1..26 : Uppers[i] = ch
    THEN Lowers[CHOOSE i \in 1..26 : Uppers[i] = ch]
    ELSE ch
Lower(s) == [i \in 1..Len(s) |-> LowerChar(s[i])]

(* str.strip() *)
RECURSIVE LStrip(_)
LStrip(s) ==
    IF s # << >> /\ Head(s) \in Whitespace THEN LStrip(Tail(s)) ELSE s
RECURSIVE RStrip(_)
RStrip(s) ==
    IF s # << >> /\ s[Len(s)] \in Whitespace
    THEN RStrip(SubSeq(s, 1, Len(s) - 1)) ELSE s
Strip(s) == RStrip(LStrip(s))

(* str.split(): the words between runs of whitespace *)
RECURSIVE SplitFrom(_, _, _)
SplitFrom(s, word, acc) ==
    IF s = << >>
    THEN (IF word = << >> THEN acc ELSE Append(acc, word))
    ELSE IF Head(s) \in Whitespace
    THEN SplitFrom(Tail(s), << >>,
                   IF word = << >> THEN acc ELSE Append(acc, word))
    ELSE SplitFrom(Tail(s), Append(word, Head(s)), acc)
Split(s) == SplitFrom(s, << >>, << >>)

(* " ".join(words) *)
RECURSIVE Join(_)
Join(words) ==
    IF words = << >> THEN << >>
    ELSE IF Len(words) = 1 THEN words[1]
    ELSE words[1] \o << SPACE >> \o Join(Tail(words))

(* str.isdigit(): true of the decimal digits and also of digit characters  *)
(* that are not decimal, such as the superscript two U+00B2                *)
IsDigit(s) ==
    s # << >> /\ \A i \in 1..Len(s) : IsDecimal(s[i]) \/ s[i] = SUPERSCRIPT_TWO

(* int(s): the value of a decimal numeral; ValueError (None here) for      *)
(* anything else, the superscript two included                             *)
RECURSIVE DecimalValue(_)
DecimalValue(s) ==
    IF s = << >> THEN 0
    ELSE 10 * DecimalValue(SubSeq(s, 1, Len(s) - 1)) + DigitValue(s[Len(s)])
ParseInt(s) ==
    IF s # << >> /\ \A i \in 1..Len(s) : IsDecimal(s[i])
    THEN DecimalValue(s) ELSE None

(* the decimal numeral json.dump writes for a non-negative integer *)
RECURSIVE Numeral(_)
Numeral(n) ==
    IF n < 10 THEN << DecimalDigits[n + 1] >>
    ELSE Append(Numeral(n \div 10), DecimalDigits[(n % 10) + 1])

NULL == << "n", "u", "l", "l" >>
STOP == << "s", "t", "o", "p" >>
NORMAL == << "n", "o", "r", "m", "a", "l" >>
WAIT == << "w", "a", "i", "t" >>
PUMP_NOW == << "p", "u", "m", "p", "_", "n", "o", "w" >>

----------------------------------------------------------------------------
(* Binary64 arithmetic of the off-time policy.                             *)
(*                                                                         *)
(* The code multiplies an integer number of seconds by the doubles 2.0,    *)
(* 1.0, 0.7 and 0.5 and truncates with int().  2.0, 1.0 and 0.5 are exact. *)
(* The double 0.7 is 0.7 - 0.4 * 2^-53, so a product whose exact value is  *)
(* an integer N can round to the double just below N, and int() then gives *)
(* N - 1 (650 * 0.7 is 454.99999999999994).  A value is a record           *)
(* [num, den, low]: the rational num/den, or, when low, the double just    *)
(* below the integer num/den.  A product that is not an integer is at      *)
(* least 1/100 away from one, far more than the rounding error.            *)

RECURSIVE Pow2Le(_)
Pow2Le(n) == IF n < 2 THEN 1 ELSE 2 * Pow2Le(n \div 2)

FloatOfInt(x) == [num |-> x, den |-> 1, low |-> FALSE]

(* x * 0.7 for an integer x: the error 0.4 * x * 2^-53 exceeds half an ulp *)
(* of the result, 2^e * 2^-53 with 2^e <= 0.7 x, when 2 x > 5 * 2^e.        *)
Times07Int(x) ==
    [num |-> 7 * x, den |-> 10,
     low |-> x > 0 /\ x % 10 = 0 /\ 2 * x > 5 * Pow2Le((7 * x) \div 10)]

(* (c * 0.7) * 0.7 for an integer c, v being c * 0.7.                      *)
Times07Twice(c, v) ==
    [num |-> 49 * c, den |-> 100,
     low |-> /\ c > 0
             /\ c % 100 = 0
             /\ LET k  == c \div 100
                    p2 == Pow2Le(49 * k)
                    p1 == Pow2Le(70 * k)
                IN  IF v.low THEN 140 * k + 7 * p1 > 5 * p2
                             ELSE 28 * k > p2]

(* v * 0.5: exact halving.                                                 *)
Half(v) ==
    [num |-> v.num, den |-> 2 * v.den,
     low |-> v.low /\ v.num % (2 * v.den) = 0]

(* int(v) for v >= 0 *)
IntOf(v) == (v.num \div v.den) - (IF v.low /\ v.num % v.den = 0 THEN 1 ELSE 0)

(* int(max(MIN_OFF_TIME, min(MAX_OFF_TIME, v))), lines 299 and 303         *)
ApplyLimits(v) ==
    IF v.num <= MIN_OFF_TIME * v.den THEN MIN_OFF_TIME
    ELSE IF v.num > MAX_OFF_TIME * v.den THEN MAX_OFF_TIME
    ELSE IntOf(v)

----------------------------------------------------------------------------
(* calculate_dynamic_off_time, lines 239-303                               *)

(* self.weather_data and ('rain' in condition or rain_1h > 0), lines 264,  *)
(* 284-288                                                                 *)
Rainy(wd) ==
    wd # NoWeather /\ (Contains(wd.condition, RAIN) \/ wd.rain_1h > 0)

(* Variant of adjustment_factor with the first band closed at 8 s         *)
(* (<= instead of < at line 249).                                          *)
adjustment_factor_ShortInclusive(working_time) ==
    IF working_time <= 2 * SHORT_RUN_THRESHOLD THEN 20
    ELSE IF working_time <= 2 * OPTIMAL_RUN_THRESHOLD THEN 10
    ELSE IF working_time <= 2 * HEAVY_LOAD_THRESHOLD THEN 7
    ELSE 0

(* lines 249-257: the adjustment factor in tenths, 0 for the heavy-load    *)
(* branch, which uses none                                                 *)
adjustment_factor(working_time) ==
    IF working_time < 2 * SHORT_RUN_THRESHOLD THEN 20
    ELSE IF working_time <= 2 * OPTIMAL_RUN_THRESHOLD THEN 10
    ELSE IF working_time <= 2 * HEAVY_LOAD_THRESHOLD THEN 7
    ELSE 0

(* Variant of weather_factor with >= at line 289.                          *)
weather_factor_HeavyInclusive(wd) ==
    IF wd.rain_1h >= HEAVY_RAIN_THRESHOLD10 THEN HEAVY_RAIN_FACTOR10
    ELSE LIGHT_RAIN_FACTOR10

(* lines 289-294 *)
weather_factor(wd) ==
    IF wd.rain_1h > HEAVY_RAIN_THRESHOLD10 THEN HEAVY_RAIN_FACTOR10
    ELSE LIGHT_RAIN_FACTOR10

(* line 278: self.current_off_time * adjustment_factor *)
Adjusted(c, af) ==
    IF af = 7 THEN Times07Int(c) ELSE FloatOfInt((c * af) \div 10)

(* lines 278-296: new_off_time before the limits are applied *)
new_off_time_unclamped(working_time, c, wd) ==
    LET af == adjustment_factor(working_time)
        v  == Adjusted(c, af)
    IN  IF Rainy(wd)
        THEN IF weather_factor(wd) = HEAVY_RAIN_FACTOR10 THEN Half(v)
             ELSE IF af = 7 THEN Times07Twice(c, v)
             ELSE Times07Int(v.num)
        ELSE v

(* Variant of heavy_load_off_time that starts from the current off-time   *)
(* instead of the 300 s baseline of line 260.                              *)
heavy_load_off_time_FromCurrent(c, wd) ==
    LET new == IF Rainy(wd)
               THEN IF wd.rain_1h > HEAVY_RAIN_THRESHOLD10
                    THEN (c * 8) \div 10
                    ELSE (c * 9) \div 10
               ELSE c
    IN  Max(MIN_OFF_TIME, new)

(* lines 258-276: the heavy-load branch; int(300 * 0.8) = 240 and          *)
(* int(300 * 0.9) = 270 are exact in binary64                              *)
heavy_load_off_time(c, wd) ==
    LET base == HEAVY_LOAD_BASELINE
        new  == IF Rainy(wd)
                THEN IF wd.rain_1h > HEAVY_RAIN_THRESHOLD10
                     THEN (base * 8) \div 10
                     ELSE (base * 9) \div 10
                ELSE base
    IN  Max(MIN_OFF_TIME, new)

(* The whole method: ret is the returned value, current_off_time the       *)
(* field after the call (line 274 resets it in the heavy-load branch).     *)
calculate_dynamic_off_time(working_time, c, mo, wd) ==
    IF Truthy(mo)
    THEN [ret |-> mo, current_off_time |-> c]
    ELSE IF adjustment_factor(working_time) = 0
    THEN [ret |-> heavy_load_off_time(c, wd), current_off_time |-> BASE_OFF_TIME]
    ELSE [ret |-> ApplyLimits(new_off_time_unclamped(working_time, c, wd)),
          current_off_time |-> c]

----------------------------------------------------------------------------
(* save_config and load_config, lines 83-112.  The state file is the pair  *)
(* of JSON values written for the two keys the controller reads back; the  *)
(* connection parameters and last_updated do not affect the controller.    *)

NoConfig == [exists |-> FALSE]
Malformed == [malformed |-> TRUE]

JsonValue(x) == IF x = None THEN NULL ELSE Numeral(x)
JsonParse(t) == IF t = NULL THEN None ELSE ParseInt(t)

(* lines 99-110: the file save_config writes *)
save_config(c, mo) ==
    [current_off_time |-> JsonValue(c), manual_override |-> JsonValue(mo)]

(* lines 84-96: the fields after load_config, from the fields before it.   *)
(* No file: nothing is read.  A file json.load rejects: the exception is   *)
(* logged and the fields keep their values.                                *)
load_config(file, c, mo) ==
    IF file = NoConfig \/ file = Malformed
    THEN [current_off_time |-> c, manual_override |-> mo]
    ELSE [current_off_time |-> JsonParse(file.current_off_time),
          manual_override |-> JsonParse(file.manual_override)]

(* the fields save_config was called on *)
Snapshot == [current_off_time |-> current_off_time,
             manual_override |-> manual_override,
             cycle_count |-> cycle_count]

----------------------------------------------------------------------------
(* Values the environment supplies                                         *)

(* working_time in ticks of 0.5 s: 0, 5, 7.5, 8, 12, 15, 15.5, 30, 30.5    *)
(* and 45 s                                                                *)
WorkingTimes == {0, 10, 15, 16, 24, 30, 31, 60, 61, 90}

(* current_off_time values: the baseline, results of earlier cycles and    *)
(* earlier overrides (60 and 90000 are 'wait 1' and 'wait 1500')           *)
OffTimes == {60, 420, 435, 660, 700, 50000, 86400, 90000}

(* manual_override values: unset, 'wait 0', 'wait 1', 'wait 10' and        *)
(* 'wait 1500'                                                             *)
Overrides == {None, 0, 60, 600, 90000}

Weather(cond, r) == [condition |-> cond, rain_1h |-> r]

(* weather snapshots: absent, dry, a rain condition without a rate, light  *)
(* rain, rain at exactly 2.5 mm/h, heavy rain, a rate without a rain       *)
(* condition                                                               *)
Weathers ==
    { NoWeather,
      Weather(<< "c", "l", "e", "a", "r" >>, 0),
      Weather(RAIN, 0),
      Weather(RAIN, 10),
      Weather(RAIN, 25),
      Weather(RAIN, 50),
      Weather(<< "c", "l", "o", "u", "d", "s" >>, 3) }

MaxCycles == 2
MaxDeposits == 2
MaxRestarts == 1

(* working times a cycle measures, in ticks: 12 s (sweet spot) and 45 s    *)
(* (heavy load); every band is covered by WorkingTimes under SpecPolicy    *)
CycleWorkingTimes == {24, 90}

(* working times the single cycle of test mode measures: those of a cycle  *)
(* and 0, the summary without any power reading, lines 230-237             *)
TestWorkingTimes == {0} \cup CycleWorkingTimes

(* snapshots a successful weather fetch can store *)
FetchedWeather == { [condition |-> RAIN, rain_1h |-> 50] }

(* outcomes of one relay request, lines 148-161: confirmed, a reply whose  *)
(* rslt is not OK, a status other than 200, an exception                   *)
RelayOutcomes == {"ok", "not_ok", "http_error", "exception"}

(* command lines of the CLI, sys.argv[1:] *)
Argvs ==
    { << STOP >>,
      << NORMAL >>,
      << PUMP_NOW >>,
      << WAIT, << "0" >> >>,
      << << "W", "A", "I", "T" >>, << "1" >> >>,
      << WAIT, << SUPERSCRIPT_TWO >> >>,
      << << "w", "a", "i", "t", "i", "n", "g" >> >> }

NoRelay == [action |-> "none", ok |-> FALSE]
NoSnapshot == [current_off_time |-> None, manual_override |-> None, cycle_count |-> None]
NoArg == [none |-> TRUE]
NoSampling == [none |-> TRUE]
NoSummary == [none |-> TRUE]
NoCli == [none |-> TRUE]

(* __init__, lines 44-61, and the files and bookkeeping as they are before *)
(* the controller has done anything                                        *)
Constructed ==
    /\ cycle_count = 0
    /\ current_off_time = BASE_OFF_TIME
    /\ manual_override = None
    /\ override_command = NoCommand
    /\ weather_data = NoWeather
    /\ pump_status = "unknown"
    /\ is_running = FALSE

Idle ==
    /\ next_off_time = None
    /\ elapsed = 0
    /\ command = Absent
    /\ snapshot = NoSnapshot
    /\ notice = "none"
    /\ sampled = FALSE
    /\ cancelled = FALSE
    /\ relay = NoRelay
    /\ attempt = 0
    /\ backoff = 0
    /\ pause = 0
    /\ slept = 0
    /\ polls = 0
    /\ restarts = 0
    /\ deposits = 0
    /\ arg = NoArg
    /\ sampling = NoSampling
    /\ performance_data = NoSummary
    /\ cli = NoCli

----------------------------------------------------------------------------
(* The off-time policy on its own: a controller in any state the inputs    *)
(* allow, on which calculate_dynamic_off_time is called once.              *)

InitPolicy ==
    /\ Idle
    /\ cycle_count = 1
    /\ current_off_time \in OffTimes
    /\ manual_override \in Overrides
    /\ override_command = NoCommand
    /\ weather_data \in Weathers
    /\ pump_status = "off"
    /\ is_running = TRUE
    /\ performance \in WorkingTimes
    /\ pc = "policy_call"
    /\ configFile = NoConfig
    /\ overrideFile = Absent

PolicyCall ==
    /\ pc = "policy_call"
    /\ LET r == calculate_dynamic_off_time(performance, current_off_time,
                                           manual_override, weather_data)
       IN  /\ next_off_time' = r.ret
           /\ current_off_time' = r.current_off_time
    /\ arg' = [working_time |-> performance,
               current_off_time |-> current_off_time,
               manual_override |-> manual_override,
               weather_data |-> weather_data]
    /\ pc' = "policy_done"
    /\ UNCHANGED << cycle_count, manual_override, override_command,
                    weather_data, pump_status, is_running, performance,
                    elapsed, command, configFile, overrideFile, snapshot,
                    notice, sampled, cancelled, relay, attempt, backoff,
                    pause, slept, polls, restarts, deposits,
                    sampling, performance_data, cli >>

NextPolicy == PolicyCall

SpecPolicy == InitPolicy /\ [][NextPolicy]_vars

----------------------------------------------------------------------------
(* Claims about calculate_dynamic_off_time, under SpecPolicy               *)

Clamp(x) == Max(MIN_OFF_TIME, Min(MAX_OFF_TIME, x))

(* C1: whenever manual_override is set (not None), the call returns        *)
(* exactly manual_override, whatever the working time, the current         *)
(* off-time and the weather.                                               *)
C1_Precedence ==
    (pc = "policy_done" /\ arg.manual_override # None)
        => next_off_time = arg.manual_override

(* C2: the value returned by calculate_dynamic_off_time lies in            *)
(* [300, 86400] for every working time, current off-time and weather       *)
(* snapshot, the manual override unset or set to any value a wait command  *)
(* can produce.                                                            *)
C2_BoundsAlways ==
    pc = "policy_done"
        => (MIN_OFF_TIME <= next_off_time /\ next_off_time <= MAX_OFF_TIME)

(* C3: with no override and no rain the band of working_time alone picks   *)
(* the regime: < 8 s doubles the off-time, 8 s to 15 s keeps it, above     *)
(* 15 s up to 30 s multiplies it by 0.7, above 30 s gives the 300 s        *)
(* baseline; the product is limited to [300, 86400] and truncated to whole *)
(* seconds (the 0.7 product in binary64).                                  *)
C3_RegimeSelection ==
    (/\ pc = "policy_done"
     /\ arg.manual_override = None
     /\ ~ Rainy(arg.weather_data))
        => LET wt == arg.working_time
               c  == arg.current_off_time
           IN  /\ wt < 16 => next_off_time = Clamp(2 * c)
               /\ (16 <= wt /\ wt <= 30) => next_off_time = Clamp(c)
               /\ (30 < wt /\ wt <= 60)
                    => next_off_time =
                         ApplyLimits([num |-> 7 * c, den |-> 10,
                                      low |-> Times07Int(c).low])
               /\ wt > 60 => next_off_time = 300
               /\ (wt = 10 /\ c = 420) => next_off_time = 840
               /\ (wt \in {16, 30} /\ c = 420) => next_off_time = 420
               /\ (wt = 60 /\ c = 435) => next_off_time = 304
               /\ (wt = 60 /\ c = 50000) => next_off_time = 35000

C3_Witness ==
    /\ pc = "policy_done"
    /\ arg.manual_override = None
    /\ arg.weather_data = NoWeather
    /\ arg.working_time = 16
    /\ arg.current_off_time = 420
    /\ next_off_time = 420

(* C4: in the three multiplicative regimes, with no override, a snapshot   *)
(* that shows rain multiplies the adjusted off-time by 0.5 when rain_1h >  *)
(* 2.5 and by 0.7 otherwise, before the limits are applied; an absent or   *)
(* dry snapshot applies no factor.  12 s, 420 s, 5 mm/h: 210, then 300.    *)
C4_WeatherFactor ==
    (/\ pc = "policy_done"
     /\ arg.manual_override = None
     /\ arg.working_time <= 60)
        => LET wt == arg.working_time
               c  == arg.current_off_time
               wd == arg.weather_data
               af == IF wt < 16 THEN 20 ELSE IF wt <= 30 THEN 10 ELSE 7
               wf == IF wd = NoWeather THEN 10
                     ELSE IF Contains(wd.condition, RAIN) \/ wd.rain_1h > 0
                          THEN (IF wd.rain_1h > 25 THEN 5 ELSE 7)
                          ELSE 10
               pre == new_off_time_unclamped(wt, c, wd)
           IN  /\ pre.num * 100 = c * af * wf * pre.den
               /\ next_off_time = ApplyLimits(pre)
               /\ (wt = 24 /\ c = 420 /\ wd = Weather(RAIN, 50))
                    => (pre.num = 210 * pre.den /\ next_off_time = 300)
               /\ (wt = 24 /\ c = 50000 /\ wd = Weather(RAIN, 25))
                    => next_off_time = 35000
               /\ (wt = 10 /\ c = 420 /\ wd = Weather(RAIN, 0))
                    => next_off_time = 588

C4_Witness ==
    /\ pc = "policy_done"
    /\ arg.manual_override = None
    /\ arg.working_time = 24
    /\ arg.current_off_time = 420
    /\ arg.weather_data = Weather(RAIN, 50)
    /\ next_off_time = 300

(* C5: with no override and working_time > 30 s the returned value is 300  *)
(* in every weather case and is the same for every current_off_time.       *)
C5_HeavyLoadIndependence ==
    (/\ pc = "policy_done"
     /\ arg.manual_override = None
     /\ arg.working_time > 60)
        => /\ next_off_time = 300
           /\ \A c2 \in OffTimes :
                calculate_dynamic_off_time(arg.working_time, c2, None,
                                           arg.weather_data).ret = next_off_time

C5_Witness ==
    /\ pc = "policy_done"
    /\ arg.manual_override = None
    /\ arg.working_time = 90
    /\ arg.current_off_time = 90000
    /\ arg.weather_data = Weather(RAIN, 10)
    /\ next_off_time = 300

----------------------------------------------------------------------------
(* Persistence on its own: a controller in any state the inputs allow      *)
(* saves its state, and a freshly constructed controller loads the file.   *)

InitPersist ==
    /\ Idle
    /\ cycle_count \in 0..MaxCycles
    /\ current_off_time \in OffTimes
    /\ manual_override \in Overrides
    /\ override_command = NoCommand
    /\ weather_data = NoWeather
    /\ pump_status = "off"
    /\ is_running = TRUE
    /\ performance = None
    /\ pc = "persist_start"
    /\ configFile \in {NoConfig, Malformed, save_config(BASE_OFF_TIME, None)}
    /\ overrideFile = Absent

SaveConfigCall ==
    /\ pc = "persist_start"
    /\ configFile' = save_config(current_off_time, manual_override)
    /\ snapshot' = Snapshot
    /\ pc' = "persist_saved"
    /\ UNCHANGED << cycle_count, current_off_time, manual_override,
                    override_command, weather_data, pump_status, is_running,
                    performance, next_off_time, elapsed, command,
                    overrideFile, notice, sampled, cancelled, relay, attempt,
                    backoff, pause, slept, polls, restarts, deposits, arg,
                    sampling, performance_data, cli >>

(* IntelligentPumpController() followed by load_config() *)
LoadOnFresh ==
    /\ pc \in {"persist_start", "persist_saved"}
    /\ LET r == load_config(configFile, BASE_OFF_TIME, None)
       IN  /\ current_off_time' = r.current_off_time
           /\ manual_override' = r.manual_override
    /\ cycle_count' = 0
    /\ override_command' = NoCommand
    /\ weather_data' = NoWeather
    /\ pump_status' = "unknown"
    /\ is_running' = FALSE
    /\ arg' = [file |-> configFile]
    /\ pc' = "persist_loaded"
    /\ UNCHANGED << performance, next_off_time, elapsed, command, configFile,
                    overrideFile, snapshot, notice, sampled, cancelled, relay,
                    attempt, backoff, pause, slept, polls, restarts,
                    deposits,
                    sampling, performance_data, cli >>

NextPersist == SaveConfigCall \/ LoadOnFresh

SpecPersist == InitPersist /\ [][NextPersist]_vars

(* C6: save_config followed by load_config on a fresh controller gives the *)
(* current_off_time, manual_override and cycle_count that were saved.      *)
C6_RoundTrip ==
    (pc = "persist_loaded" /\ snapshot # NoSnapshot)
        => /\ current_off_time = snapshot.current_off_time
           /\ manual_override = snapshot.manual_override
           /\ cycle_count = snapshot.cycle_count

----------------------------------------------------------------------------
(* The telemetry sampler on its own: monitor_pump_performance is called    *)
(* with a window of arg.duration ticks; run_cycle then commands the pump   *)
(* OFF and, when that is confirmed, hands the result to the policy, lines  *)
(* 400-410.  Power readings are whole watts; the clock counts ticks of     *)
(* 0.5 s since start_time.                                                 *)

(* one pass of control_pump's loop, lines 147-165, at loop index att with  *)
(* the given outcome of the request: whether the call returns, its result, *)
(* the next loop index and the sleep taken (line 163 is inside the except  *)
(* clause)                                                                 *)
control_pump(att, outcome) ==
    IF outcome = "ok"
    THEN [returns |-> TRUE, ok |-> TRUE, attempt |-> 0, backoff |-> 0]
    ELSE [returns |-> att + 1 >= RELAY_ATTEMPTS,
          ok |-> FALSE,
          attempt |-> IF att + 1 >= RELAY_ATTEMPTS THEN 0 ELSE att + 1,
          backoff |-> IF outcome = "exception" /\ att < 2
                      THEN RELAY_BACKOFF ELSE 0]

(* longest window tried, in ticks *)
MaxDuration == 4

(* power_w of a successful get_power_data call *)
Powers == {200, 201, 1200}

(* results of one get_power_data call, lines 167-189: a reading, or None   *)
(* when the request failed, was refused or could not be parsed             *)
PollOutcomes == {None} \cup Powers

(* ticks one poll takes beyond the sleep of line 217 (the request may take *)
(* up to its timeout)                                                      *)
Latencies == {0, 1}

(* Variant of IsWorking that counts a reading of exactly the threshold.    *)
IsWorking_Inclusive(power_w) == power_w >= WORKING_POWER_THRESHOLD

(* line 212 *)
IsWorking(power_w) == power_w > WORKING_POWER_THRESHOLD

(* sum(), max() and min() over a non-empty list of readings, lines 221-223 *)
RECURSIVE sum(_)
sum(readings) ==
    IF readings = << >> THEN 0 ELSE Head(readings) + sum(Tail(readings))

RECURSIVE max(_)
max(readings) ==
    IF Len(readings) = 1 THEN Head(readings)
    ELSE Max(Head(readings), max(Tail(readings)))

RECURSIVE min(_)
min(readings) ==
    IF Len(readings) = 1 THEN Head(readings)
    ELSE Min(Head(readings), min(Tail(readings)))

(* the quotient num / den of line 221, kept exact *)
Quotient(num, den) == [num |-> num, den |-> den]

(* lines 207-217: one pass of the sampling loop with the given poll result *)
(* and latency                                                             *)
sample(loc, outcome, latency) ==
    [clock |-> loc.clock + 1 + latency,
     working_time |-> IF outcome # None /\ IsWorking(outcome)
                      THEN loc.working_time + 1 ELSE loc.working_time,
     power_readings |-> IF outcome # None
                        THEN Append(loc.power_readings, outcome)
                        ELSE loc.power_readings]

(* lines 219-237: the summary returned *)
summarise(loc, duration) ==
    IF loc.power_readings # << >>
    THEN [working_time |-> loc.working_time,
          total_time |-> duration,
          avg_power |-> Quotient(sum(loc.power_readings),
                                 Len(loc.power_readings)),
          max_power |-> max(loc.power_readings),
          min_power |-> min(loc.power_readings),
          power_readings |-> loc.power_readings]
    ELSE [working_time |-> 0,
          total_time |-> duration,
          avg_power |-> Quotient(0, 1),
          max_power |-> 0,
          min_power |-> 0,
          power_readings |-> << >>]

InitSampler ==
    /\ cycle_count = 1
    /\ current_off_time \in {420, 50000}
    /\ manual_override \in {None, 600}
    /\ override_command = NoCommand
    /\ weather_data \in {NoWeather, Weather(RAIN, 50)}
    /\ pump_status = "on"
    /\ is_running = TRUE
    /\ performance = None
    /\ next_off_time = None
    /\ elapsed = 0
    /\ command = Absent
    /\ snapshot = NoSnapshot
    /\ notice = "pump_on"
    /\ sampled = FALSE
    /\ cancelled = FALSE
    /\ relay = [action |-> "on", ok |-> TRUE]
    /\ attempt = 0
    /\ backoff = 0
    /\ pause = 0
    /\ slept = 0
    /\ polls = 0
    /\ restarts = 0
    /\ deposits = 0
    /\ \E d \in 1 .. MaxDuration :
         arg = [duration |-> d, outcomes |-> << >>,
                current_off_time |-> current_off_time]
    /\ sampling = [clock |-> 0, working_time |-> 0, power_readings |-> << >>]
    /\ performance_data = NoSummary
    /\ cli = NoCli
    /\ pc = "sampling"
    /\ configFile = NoConfig
    /\ overrideFile = Absent

(* line 207 true, lines 208-217 *)
SamplePoll ==
    /\ pc = "sampling"
    /\ sampling.clock < arg.duration
    /\ \E outcome \in PollOutcomes, latency \in Latencies :
         /\ sampling' = sample(sampling, outcome, latency)
         /\ arg' = [arg EXCEPT !.outcomes = Append(@, outcome)]
    /\ UNCHANGED << cycle_count, current_off_time, manual_override,
                    override_command, weather_data, pump_status, is_running,
                    pc, performance, next_off_time, elapsed, command,
                    configFile, overrideFile, snapshot, notice, sampled,
                    cancelled, relay, attempt, backoff, pause, slept, polls,
                    restarts, deposits, performance_data, cli >>

(* line 207 false, lines 219-237 *)
SampleReturn ==
    /\ pc = "sampling"
    /\ ~ (sampling.clock < arg.duration)
    /\ performance_data' = summarise(sampling, arg.duration)
    /\ performance' = performance_data'.working_time
    /\ sampled' = TRUE
    /\ pc' = "sampled"
    /\ UNCHANGED << cycle_count, current_off_time, manual_override,
                    override_command, weather_data, pump_status, is_running,
                    next_off_time, elapsed, command, configFile,
                    overrideFile, snapshot, notice, cancelled, relay,
                    attempt, backoff, pause, slept, polls, restarts,
                    deposits, arg, sampling, cli >>

(* lines 402-406: one attempt of control_pump("off") after the window;     *)
(* when the last attempt fails run_cycle returns False and the summary is  *)
(* dropped                                                                 *)
SampledOff ==
    /\ pc = "sampled"
    /\ \E outcome \in RelayOutcomes :
         LET r == control_pump(attempt, outcome)
             failed == r.returns /\ ~ r.ok
         IN  /\ attempt' = r.attempt
             /\ backoff' = r.backoff
             /\ pump_status' = IF r.ok THEN "off" ELSE pump_status
             /\ relay' = IF r.returns THEN [action |-> "off", ok |-> r.ok]
                         ELSE relay
             /\ notice' = IF failed THEN "failed_off" ELSE notice
             /\ pc' = IF ~ r.returns THEN "sampled"
                      ELSE IF r.ok THEN "sampled_off" ELSE "sampler_failed"
             /\ performance' = IF failed THEN None ELSE performance
             /\ performance_data' = IF failed THEN NoSummary
                                    ELSE performance_data
    /\ UNCHANGED << cycle_count, current_off_time, manual_override,
                    override_command, weather_data, is_running,
                    next_off_time, elapsed, command, configFile, overrideFile,
                    snapshot, sampled, cancelled, pause, slept, polls,
                    restarts, deposits, arg, sampling, cli >>

(* lines 408-436 on the summary: the next off-time is computed, stored and *)
(* saved and the cycle is notified, up to the start of the wait            *)
SampledPolicy ==
    /\ pc = "sampled_off"
    /\ LET r == calculate_dynamic_off_time(performance_data.working_time,
                                           current_off_time, manual_override,
                                           weather_data)
       IN  /\ next_off_time' = r.ret
           /\ current_off_time' = r.ret
           /\ configFile' = save_config(r.ret, manual_override)
           /\ snapshot' = [current_off_time |-> r.ret,
                           manual_override |-> manual_override,
                           cycle_count |-> cycle_count]
    /\ notice' = "complete"
    /\ elapsed' = 0
    /\ slept' = 0
    /\ polls' = 0
    /\ pc' = "sampler_done"
    /\ UNCHANGED << cycle_count, manual_override, override_command,
                    weather_data, pump_status, is_running, performance,
                    command, overrideFile, sampled, cancelled, relay, attempt,
                    backoff, pause, restarts, deposits, arg, sampling,
                    performance_data, cli >>

NextSampler ==
    \/ SamplePoll
    \/ SampleReturn
    \/ SampledOff
    \/ SampledPolicy

SpecSampler == InitSampler /\ [][NextSampler]_vars

----------------------------------------------------------------------------
(* The controller process: main, run_controller and run_cycle, with the    *)
(* CLI depositing commands, signals, cancellation of the task, the single  *)
(* cycle of test mode and restarts of the process.                         *)

(* lines 359-375 of check_override_commands: the effect of the command     *)
(* text on the fields; raised when int() throws at line 370, in which case *)
(* lines 371-378 are skipped                                               *)
apply_command(cmd, running, mo) ==
    LET parts == Split(cmd)
        isWait == StartsWith(cmd, WAIT)
        numeric == isWait /\ Len(parts) = 2 /\ IsDigit(parts[2])
        minutes == IF numeric THEN ParseInt(parts[2]) ELSE None
    IN  [raised |-> cmd # STOP /\ cmd # NORMAL /\ numeric /\ minutes = None,
         is_running |-> IF cmd = STOP THEN FALSE ELSE running,
         manual_override |->
             IF cmd = STOP THEN mo
             ELSE IF cmd = NORMAL THEN None
             ELSE IF numeric /\ minutes # None THEN minutes * 60
             ELSE mo,
         pump_now |-> cmd # STOP /\ cmd # NORMAL /\ ~ isWait /\ cmd = PUMP_NOW]

(* main, lines 503-510, and create_override_command, lines 492-497: the    *)
(* text the CLI writes to the override file, Absent when argv deposits     *)
(* nothing                                                                 *)
cli_deposit(argv) ==
    LET cmd == Lower(argv[1])
    IN  IF cmd \in {STOP, NORMAL, PUMP_NOW} THEN cmd
        ELSE IF StartsWith(cmd, WAIT) THEN Join(argv)
        ELSE Absent

(* run_cycle returns (or is unwound): its locals are gone *)
ReturnLocals ==
    /\ performance' = None
    /\ next_off_time' = None
    /\ elapsed' = 0
    /\ slept' = 0
    /\ polls' = 0

(* Variant of FailedCycleNext in which a failed cycle leaves the loop.     *)
FailedCycleNext_Exit == "stopping"

(* lines 471-473: run_controller after run_cycle returned False *)
FailedCycleNext == "cooldown"

(* Variant of OffFailureNext in which run_cycle goes on to line 409.       *)
OffFailureNext_Proceed == "compute"

(* lines 403-406: run_cycle returns False when the OFF command failed *)
OffFailureNext == FailedCycleNext

(* Variant of ShutdownNext in which the loop's exit skips the final OFF.   *)
ShutdownNext_NoOff == "terminated"

(* lines 480-486: whichever way the loop of run_controller is left, the    *)
(* finally clause runs and commands the pump OFF                           *)
ShutdownNext == "stopping"

(* Variant of pump_now_check that leaves the request pending.              *)
pump_now_check_NotCleared(oc) ==
    [break |-> oc = "pump_now", override_command |-> oc]

(* lines 444-447 of run_cycle: a pending pump_now request is cleared and   *)
(* ends the wait loop                                                      *)
pump_now_check(oc) ==
    [break |-> oc = "pump_now",
     override_command |-> IF oc = "pump_now" THEN NoCommand ELSE oc]

(* Variant of count_cycle that forgets the increment.                     *)
count_cycle_Uncounted(n) == n

(* line 385: run_cycle counts the cycle it starts *)
count_cycle(n) == n + 1

(* Variant of wait_step that always sleeps a whole interval.              *)
wait_step_WholeInterval(off_time, done) == CHECK_INTERVAL

(* line 439: the length of the next sleep of the wait loop *)
wait_step(off_time, done) == Min(CHECK_INTERVAL, off_time - done)

(* Variant of MonitorNext in which run_cycle forgets the OFF command.     *)
MonitorNext_SkipOff == "compute"

(* lines 400-403: after the sampling window run_cycle commands the pump    *)
(* OFF                                                                     *)
MonitorNext == "pump_off"

(* lines 453-462 *)
Startup ==
    /\ pc = "startup"
    /\ is_running' = TRUE
    /\ pc' = "startup_delay"
    /\ UNCHANGED << cycle_count, current_off_time, manual_override,
                    override_command, weather_data, pump_status, performance,
                    next_off_time, elapsed, command, configFile, overrideFile,
                    snapshot, notice, sampled, cancelled, relay, attempt,
                    backoff, pause, slept, polls, restarts, deposits, arg,
                    sampling, performance_data, cli >>

(* lines 462-465: the startup sleep and the session *)
StartupDelay ==
    /\ pc = "startup_delay"
    /\ pause' = STARTUP_DELAY
    /\ pc' = "loop"
    /\ UNCHANGED << cycle_count, current_off_time, manual_override,
                    override_command, weather_data, pump_status, is_running,
                    performance, next_off_time, elapsed, command, configFile,
                    overrideFile, snapshot, notice, sampled, cancelled, relay,
                    attempt, backoff, slept, polls, restarts, deposits, arg,
                    sampling, performance_data, cli >>

(* line 468 true, then lines 385-390: run_cycle counts the cycle and       *)
(* refreshes the weather (a failed fetch keeps the previous snapshot).     *)
(* notice, sampled, pause, slept and polls describe one cycle and start    *)
(* afresh here.                                                            *)
CycleStart ==
    /\ pc = "loop"
    /\ is_running
    /\ cycle_count < MaxCycles
    /\ cycle_count' = count_cycle(cycle_count)
    /\ weather_data' \in {weather_data} \cup FetchedWeather
    /\ performance' = None
    /\ next_off_time' = None
    /\ sampled' = FALSE
    /\ elapsed' = 0
    /\ slept' = 0
    /\ polls' = 0
    /\ attempt' = 0
    /\ backoff' = 0
    /\ notice' = "none"
    /\ pause' = 0
    /\ pc' = "pump_on"
    /\ UNCHANGED << current_off_time, manual_override, override_command,
                    pump_status, is_running, command, configFile,
                    overrideFile, snapshot, cancelled, relay, restarts,
                    deposits, arg,
                    sampling, performance_data, cli >>

(* line 468 false: the loop ends and the finally clause runs; the         *)
(* bookkeeping of the last cycle is dropped                                *)
LoopExit ==
    /\ pc = "loop"
    /\ ~ is_running
    /\ attempt' = 0
    /\ backoff' = 0
    /\ pause' = 0
    /\ notice' = "none"
    /\ sampled' = FALSE
    /\ pc' = ShutdownNext
    /\ UNCHANGED << cycle_count, current_off_time, manual_override,
                    override_command, weather_data, pump_status, is_running,
                    performance, next_off_time, elapsed, command, configFile,
                    overrideFile, snapshot, cancelled, relay, slept, polls,
                    restarts, deposits, arg,
                    sampling, performance_data, cli >>

(* lines 392-397: one attempt of control_pump("on") *)
PumpOn ==
    /\ pc = "pump_on"
    /\ \E outcome \in RelayOutcomes :
         LET r == control_pump(attempt, outcome)
         IN  /\ attempt' = r.attempt
             /\ backoff' = r.backoff
             /\ pump_status' = IF r.ok THEN "on" ELSE pump_status
             /\ relay' = IF r.returns THEN [action |-> "on", ok |-> r.ok]
                         ELSE relay
             /\ notice' = IF ~ r.returns THEN notice
                          ELSE IF r.ok THEN "pump_on" ELSE "failed_on"
             /\ pc' = IF ~ r.returns THEN "pump_on"
                      ELSE IF r.ok THEN "monitor" ELSE FailedCycleNext
    /\ UNCHANGED << cycle_count, current_off_time, manual_override,
                    override_command, weather_data, is_running, performance,
                    next_off_time, elapsed, command, configFile, overrideFile,
                    snapshot, sampled, cancelled, pause, slept, polls,
                    restarts, deposits, arg,
                    sampling, performance_data, cli >>

(* line 400: monitor_pump_performance over the ON window *)
Monitor ==
    /\ pc = "monitor"
    /\ performance' \in CycleWorkingTimes
    /\ sampled' = TRUE
    /\ pc' = MonitorNext
    /\ UNCHANGED << cycle_count, current_off_time, manual_override,
                    override_command, weather_data, pump_status, is_running,
                    next_off_time, elapsed, command, configFile, overrideFile,
                    snapshot, notice, cancelled, relay, attempt, backoff,
                    pause, slept, polls, restarts, deposits, arg,
                    sampling, performance_data, cli >>

(* lines 402-406: one attempt of control_pump("off") *)
PumpOff ==
    /\ pc = "pump_off"
    /\ \E outcome \in RelayOutcomes :
         LET r == control_pump(attempt, outcome)
         IN  /\ attempt' = r.attempt
             /\ backoff' = r.backoff
             /\ pump_status' = IF r.ok THEN "off" ELSE pump_status
             /\ relay' = IF r.returns THEN [action |-> "off", ok |-> r.ok]
                         ELSE relay
             /\ notice' = IF r.returns /\ ~ r.ok THEN "failed_off" ELSE notice
             /\ pc' = IF ~ r.returns THEN "pump_off"
                      ELSE IF r.ok THEN "compute" ELSE OffFailureNext
             /\ performance' = IF pc' \in {"pump_off", "compute"}
                               THEN performance ELSE None
    /\ UNCHANGED << cycle_count, current_off_time, manual_override,
                    override_command, weather_data, is_running,
                    next_off_time, elapsed, command, configFile, overrideFile,
                    snapshot, sampled, cancelled, pause, slept, polls,
                    restarts, deposits, arg,
                    sampling, performance_data, cli >>

(* lines 408-436: the next off-time is computed, stored and saved, the     *)
(* cycle is logged and notified, and the wait begins                       *)
Compute ==
    /\ pc = "compute"
    /\ LET r == calculate_dynamic_off_time(performance, current_off_time,
                                           manual_override, weather_data)
       IN  /\ next_off_time' = r.ret
           /\ current_off_time' = r.ret
           /\ configFile' = save_config(r.ret, manual_override)
           /\ snapshot' = [current_off_time |-> r.ret,
                           manual_override |-> manual_override,
                           cycle_count |-> cycle_count]
    /\ notice' = "complete"
    /\ elapsed' = 0
    /\ slept' = 0
    /\ polls' = 0
    /\ pc' = "wait"
    /\ UNCHANGED << cycle_count, manual_override, override_command,
                    weather_data, pump_status, is_running, performance,
                    command, overrideFile, sampled, cancelled, relay, attempt,
                    backoff, pause, restarts, deposits, arg,
                    sampling, performance_data, cli >>

(* lines 476-478: an exception raised inside run_cycle (a weather payload  *)
(* whose rain rate is not a number makes line 288 raise) is caught by      *)
(* run_controller and notified                                             *)
CycleError ==
    /\ pc = "compute"
    /\ notice' = "error"
    /\ performance' = None
    /\ pc' = "error_sleep"
    /\ UNCHANGED << cycle_count, current_off_time, manual_override,
                    override_command, weather_data, pump_status, is_running,
                    next_off_time, elapsed, command, configFile,
                    overrideFile, snapshot, sampled, cancelled, relay,
                    attempt, backoff, pause, slept, polls, restarts,
                    deposits, arg,
                    sampling, performance_data, cli >>

(* line 479 *)
ErrorPause ==
    /\ pc = "error_sleep"
    /\ pause' = ERROR_PAUSE
    /\ pc' = "loop"
    /\ UNCHANGED << cycle_count, current_off_time, manual_override,
                    override_command, weather_data, pump_status, is_running,
                    performance, next_off_time, elapsed, command, configFile,
                    overrideFile, snapshot, notice, sampled, cancelled, relay,
                    attempt, backoff, slept, polls, restarts, deposits, arg,
                    sampling, performance_data, cli >>

(* lines 472-473 *)
CoolDown ==
    /\ pc = "cooldown"
    /\ pause' = COOL_DOWN
    /\ pc' = "loop"
    /\ UNCHANGED << cycle_count, current_off_time, manual_override,
                    override_command, weather_data, pump_status, is_running,
                    performance, next_off_time, elapsed, command, configFile,
                    overrideFile, snapshot, notice, sampled, cancelled, relay,
                    attempt, backoff, slept, polls, restarts, deposits, arg,
                    sampling, performance_data, cli >>

(* line 438 true, line 439: the wait loop is entered and run_cycle is      *)
(* suspended in the sleep                                                  *)
WaitSleep ==
    /\ pc = "wait"
    /\ elapsed < next_off_time
    /\ is_running
    /\ pc' = "wait_sleep"
    /\ UNCHANGED << cycle_count, current_off_time, manual_override,
                    override_command, weather_data, pump_status, is_running,
                    performance, next_off_time, elapsed, command, configFile,
                    overrideFile, snapshot, notice, sampled, cancelled, relay,
                    attempt, backoff, pause, slept, polls, restarts, deposits,
                    arg, sampling, performance_data, cli >>

(* lines 439-442 and 355-359: the sleep of line 439 ends, whatever became  *)
(* of is_running meanwhile; the elapsed time is advanced and               *)
(* check_override_commands looks for the file and reads it; with no file   *)
(* the method returns and lines 444-447 run                                *)
WaitTick ==
    /\ pc = "wait_sleep"
    /\ IF overrideFile = Absent
       THEN /\ command' = command
            /\ override_command' = pump_now_check(override_command).override_command
            /\ pc' = IF pump_now_check(override_command).break
                     THEN "loop" ELSE "wait"
       ELSE /\ command' = Lower(Strip(overrideFile))
            /\ override_command' = override_command
            /\ pc' = "poll_apply"
    /\ IF pc' = "loop"
       THEN ReturnLocals
       ELSE /\ slept' = slept + wait_step(next_off_time, elapsed)
            /\ elapsed' = elapsed + CHECK_INTERVAL
            /\ polls' = polls + 1
            /\ UNCHANGED << performance, next_off_time >>
    /\ notice' = IF pc' = "loop" THEN "immediate" ELSE notice
    /\ UNCHANGED << cycle_count, current_off_time, manual_override,
                    weather_data, pump_status, is_running, configFile,
                    overrideFile, snapshot, sampled, cancelled, relay,
                    attempt, backoff, pause, restarts, deposits, arg,
                    sampling, performance_data, cli >>

(* lines 361-381 and 444-447: the command read is applied and logged, the  *)
(* file is removed and the state saved (unless line 370 raised), and a     *)
(* pump_now request ends the wait; a CLI process that has the file open    *)
(* keeps writing to the removed file                                       *)
PollApply ==
    /\ pc = "poll_apply"
    /\ LET r == apply_command(command, is_running, manual_override)
           k == pump_now_check(IF r.pump_now THEN "pump_now"
                               ELSE override_command)
       IN  /\ is_running' = r.is_running
           /\ manual_override' = r.manual_override
           /\ overrideFile' = IF r.raised THEN overrideFile ELSE Absent
           /\ cli' = IF r.raised \/ cli = NoCli THEN cli
                     ELSE [cli EXCEPT !.unlinked = TRUE]
           /\ configFile' = IF r.raised THEN configFile
                            ELSE save_config(current_off_time, r.manual_override)
           /\ snapshot' = IF r.raised THEN snapshot
                          ELSE [current_off_time |-> current_off_time,
                                manual_override |-> r.manual_override,
                                cycle_count |-> cycle_count]
           /\ override_command' = k.override_command
           /\ notice' = IF k.break THEN "immediate"
                        ELSE IF command = STOP THEN "stop_requested"
                        ELSE notice
           /\ pc' = IF k.break THEN "loop" ELSE "wait"
           /\ IF k.break
              THEN ReturnLocals
              ELSE UNCHANGED << performance, next_off_time, elapsed, slept,
                                polls >>
    /\ command' = Absent
    /\ UNCHANGED << cycle_count, current_off_time, weather_data, pump_status,
                    sampled, cancelled, relay, attempt, backoff, pause,
                    restarts, deposits, arg,
                    sampling, performance_data >>

(* line 438 false, line 449: the wait is over and run_cycle returns True *)
WaitDone ==
    /\ pc = "wait"
    /\ ~ (elapsed < next_off_time /\ is_running)
    /\ ReturnLocals
    /\ pc' = "loop"
    /\ UNCHANGED << cycle_count, current_off_time, manual_override,
                    override_command, weather_data, pump_status, is_running,
                    command, configFile, overrideFile, snapshot, notice,
                    sampled, cancelled, relay, attempt, backoff, pause,
                    restarts, deposits, arg,
                    sampling, performance_data, cli >>

(* lines 481-490: one attempt of the final control_pump("off"), whose      *)
(* result is ignored                                                       *)
ShutdownOff ==
    /\ pc = "stopping"
    /\ \E outcome \in RelayOutcomes :
         LET r == control_pump(attempt, outcome)
         IN  /\ attempt' = r.attempt
             /\ backoff' = r.backoff
             /\ pump_status' = IF r.ok THEN "off" ELSE pump_status
             /\ relay' = IF r.returns THEN [action |-> "off", ok |-> r.ok]
                         ELSE relay
             /\ pc' = IF r.returns THEN "terminated" ELSE "stopping"
    /\ UNCHANGED << cycle_count, current_off_time, manual_override,
                    override_command, weather_data, is_running, performance,
                    next_off_time, elapsed, command, configFile, overrideFile,
                    snapshot, notice, sampled, cancelled, pause, slept, polls,
                    restarts, deposits, arg,
                    sampling, performance_data, cli >>

(* _signal_handler, lines 79-81: SIGTERM or SIGINT *)
Signal ==
    /\ pc \notin {"startup", "terminated"}
    /\ is_running
    /\ is_running' = FALSE
    /\ UNCHANGED << cycle_count, current_off_time, manual_override,
                    override_command, weather_data, pump_status, pc,
                    performance, next_off_time, elapsed, command, configFile,
                    overrideFile, snapshot, notice, sampled, cancelled, relay,
                    attempt, backoff, pause, slept, polls, restarts,
                    deposits, arg,
                    sampling, performance_data, cli >>

(* the task is cancelled at one of its awaits. Inside the loop (lines      *)
(* 474-475 for run_cycle and the cool-down, line 479 for the error sleep,  *)
(* from where the cancellation leaves through the finally clause) the      *)
(* final OFF follows. In the startup sleep, line 462, which is outside the *)
(* try, run_controller is left at once. In the final OFF itself, line 485, *)
(* the bare except of line 486 swallows the cancellation and the request   *)
(* is given up.                                                            *)
Cancel ==
    /\ pc \in {"startup_delay", "pump_on", "monitor", "pump_off",
               "wait_sleep", "cooldown", "error_sleep", "stopping"}
    /\ cancelled' = TRUE
    /\ attempt' = 0
    /\ backoff' = 0
    /\ ReturnLocals
    /\ pause' = 0
    /\ notice' = "none"
    /\ sampled' = FALSE
    /\ pc' = IF pc \in {"startup_delay", "stopping"} THEN "terminated"
             ELSE ShutdownNext
    /\ UNCHANGED << cycle_count, current_off_time, manual_override,
                    override_command, weather_data, pump_status, is_running,
                    command, configFile, overrideFile, snapshot, relay,
                    restarts, deposits, arg,
                    sampling, performance_data, cli >>

(* main with a command argument, lines 503-510, up to line 495: the CLI    *)
(* process opens the override file for writing, which creates it or        *)
(* empties it                                                              *)
DepositOpen ==
    /\ deposits < MaxDeposits
    /\ cli = NoCli
    /\ \E argv \in Argvs :
         /\ cli_deposit(argv) # Absent
         /\ cli' = [command |-> cli_deposit(argv), unlinked |-> FALSE]
    /\ overrideFile' = << >>
    /\ deposits' = deposits + 1
    /\ UNCHANGED << cycle_count, current_off_time, manual_override,
                    override_command, weather_data, pump_status, is_running,
                    pc, performance, next_off_time, elapsed, command,
                    configFile, snapshot, notice, sampled, cancelled, relay,
                    attempt, backoff, pause, slept, polls, restarts, arg,
                    sampling, performance_data >>

(* lines 496-497: the CLI process writes the text and closes the file; if  *)
(* the controller removed the file meanwhile the text goes with it         *)
DepositWrite ==
    /\ cli # NoCli
    /\ overrideFile' = IF cli.unlinked THEN overrideFile ELSE cli.command
    /\ cli' = NoCli
    /\ UNCHANGED << cycle_count, current_off_time, manual_override,
                    override_command, weather_data, pump_status, is_running,
                    pc, performance, next_off_time, elapsed, command,
                    configFile, snapshot, notice, sampled, cancelled, relay,
                    attempt, backoff, pause, slept, polls, restarts, deposits,
                    arg, sampling, performance_data >>

(* main with argv[1] "test" in any case, lines 504 and 511-518: one        *)
(* run_cycle outside run_controller, with is_running still False, so the   *)
(* wait loop of line 438 is not entered; there is no startup delay, no     *)
(* override poll and no final OFF, and main returns when run_cycle does.   *)

(* positions of the task inside the single cycle of test mode *)
TestPcs == {"test_on", "test_monitor", "test_off", "test_compute"}

(* lines 511-515 and 385-390: test mode calls run_cycle, which counts the  *)
(* cycle and refreshes the weather                                         *)
TestStart ==
    /\ pc = "startup"
    /\ cycle_count' = count_cycle(cycle_count)
    /\ weather_data' \in {weather_data} \cup FetchedWeather
    /\ pc' = "test_on"
    /\ UNCHANGED << current_off_time, manual_override, override_command,
                    pump_status, is_running, performance, next_off_time,
                    elapsed, command, configFile, overrideFile, snapshot,
                    notice, sampled, cancelled, relay, attempt, backoff,
                    pause, slept, polls, restarts, deposits, arg, sampling,
                    performance_data, cli >>

(* lines 392-397 in test mode: one attempt of control_pump("on"); when the *)
(* last attempt fails run_cycle returns False and main returns             *)
TestPumpOn ==
    /\ pc = "test_on"
    /\ \E outcome \in RelayOutcomes :
         LET r == control_pump(attempt, outcome)
         IN  /\ attempt' = r.attempt
             /\ backoff' = r.backoff
             /\ pump_status' = IF r.ok THEN "on" ELSE pump_status
             /\ relay' = IF r.returns THEN [action |-> "on", ok |-> r.ok]
                         ELSE relay
             /\ notice' = IF ~ r.returns THEN notice
                          ELSE IF r.ok THEN "pump_on" ELSE "failed_on"
             /\ pc' = IF ~ r.returns THEN "test_on"
                      ELSE IF r.ok THEN "test_monitor" ELSE "terminated"
    /\ UNCHANGED << cycle_count, current_off_time, manual_override,
                    override_command, weather_data, is_running, performance,
                    next_off_time, elapsed, command, configFile, overrideFile,
                    snapshot, sampled, cancelled, pause, slept, polls,
                    restarts, deposits, arg, sampling, performance_data,
                    cli >>

(* line 400 in test mode: monitor_pump_performance over the ON window *)
TestMonitor ==
    /\ pc = "test_monitor"
    /\ performance' \in TestWorkingTimes
    /\ sampled' = TRUE
    /\ pc' = "test_off"
    /\ UNCHANGED << cycle_count, current_off_time, manual_override,
                    override_command, weather_data, pump_status, is_running,
                    next_off_time, elapsed, command, configFile, overrideFile,
                    snapshot, notice, cancelled, relay, attempt, backoff,
                    pause, slept, polls, restarts, deposits, arg, sampling,
                    performance_data, cli >>

(* lines 402-406 in test mode: one attempt of control_pump("off"); when    *)
(* the last attempt fails run_cycle returns False and main returns         *)
TestPumpOff ==
    /\ pc = "test_off"
    /\ \E outcome \in RelayOutcomes :
         LET r == control_pump(attempt, outcome)
         IN  /\ attempt' = r.attempt
             /\ backoff' = r.backoff
             /\ pump_status' = IF r.ok THEN "off" ELSE pump_status
             /\ relay' = IF r.returns THEN [action |-> "off", ok |-> r.ok]
                         ELSE relay
             /\ notice' = IF r.returns /\ ~ r.ok THEN "failed_off" ELSE notice
             /\ pc' = IF ~ r.returns THEN "test_off"
                      ELSE IF r.ok THEN "test_compute" ELSE "terminated"
             /\ performance' = IF pc' = "terminated" THEN None
                               ELSE performance
    /\ UNCHANGED << cycle_count, current_off_time, manual_override,
                    override_command, weather_data, is_running,
                    next_off_time, elapsed, command, configFile, overrideFile,
                    snapshot, sampled, cancelled, pause, slept, polls,
                    restarts, deposits, arg, sampling, performance_data,
                    cli >>

(* lines 408-449 and 516-518 in test mode: the next off-time is computed,  *)
(* stored and saved and the cycle notified; line 438 is false at once      *)
(* (is_running is False), run_cycle returns True and main returns          *)
TestCompute ==
    /\ pc = "test_compute"
    /\ LET r == calculate_dynamic_off_time(performance, current_off_time,
                                           manual_override, weather_data)
       IN  /\ current_off_time' = r.ret
           /\ configFile' = save_config(r.ret, manual_override)
           /\ snapshot' = [current_off_time |-> r.ret,
                           manual_override |-> manual_override,
                           cycle_count |-> cycle_count]
    /\ notice' = "complete"
    /\ performance' = None
    /\ pc' = "terminated"
    /\ UNCHANGED << cycle_count, manual_override, override_command,
                    weather_data, pump_status, is_running, next_off_time,
                    elapsed, command, overrideFile, sampled, cancelled, relay,
                    attempt, backoff, pause, slept, polls, restarts, deposits,
                    arg, sampling, performance_data, cli >>

(* line 409 raises in test mode (a weather payload whose rain rate is not  *)
(* a number): the exception leaves main through the finally of line 516    *)
TestError ==
    /\ pc = "test_compute"
    /\ performance' = None
    /\ pc' = "terminated"
    /\ UNCHANGED << cycle_count, current_off_time, manual_override,
                    override_command, weather_data, pump_status, is_running,
                    next_off_time, elapsed, command, configFile, overrideFile,
                    snapshot, notice, sampled, cancelled, relay, attempt,
                    backoff, pause, slept, polls, restarts, deposits, arg,
                    sampling, performance_data, cli >>

(* the task is cancelled at an await of the test cycle (lines 388 and 393, *)
(* 400, 403): the cancellation leaves main through the finally of line 516 *)
TestCancel ==
    /\ pc \in {"test_on", "test_monitor", "test_off"}
    /\ cancelled' = TRUE
    /\ attempt' = 0
    /\ backoff' = 0
    /\ performance' = None
    /\ pc' = "terminated"
    /\ UNCHANGED << cycle_count, current_off_time, manual_override,
                    override_command, weather_data, pump_status, is_running,
                    next_off_time, elapsed, command, configFile, overrideFile,
                    snapshot, notice, sampled, relay, pause, slept, polls,
                    restarts, deposits, arg, sampling, performance_data,
                    cli >>

(* the single cycle of test mode *)
TestMode ==
    \/ TestStart
    \/ TestPumpOn
    \/ TestMonitor
    \/ TestPumpOff
    \/ TestCompute
    \/ TestError
    \/ TestCancel

(* the process is started again after it ended: main, lines 499-522, and   *)
(* __init__, lines 44-61; the files stay as they are                       *)
Restart ==
    /\ pc = "terminated"
    /\ restarts < MaxRestarts
    /\ restarts' = restarts + 1
    /\ cycle_count' = 0
    /\ current_off_time' = BASE_OFF_TIME
    /\ manual_override' = None
    /\ override_command' = NoCommand
    /\ weather_data' = NoWeather
    /\ pump_status' = "unknown"
    /\ is_running' = FALSE
    /\ performance' = None
    /\ next_off_time' = None
    /\ elapsed' = 0
    /\ command' = Absent
    /\ notice' = "none"
    /\ sampled' = FALSE
    /\ cancelled' = FALSE
    /\ relay' = NoRelay
    /\ attempt' = 0
    /\ backoff' = 0
    /\ pause' = 0
    /\ slept' = 0
    /\ polls' = 0
    /\ pc' = "startup"
    /\ UNCHANGED << configFile, overrideFile, snapshot, deposits, arg,
                    sampling, performance_data, cli >>

Init ==
    /\ Constructed
    /\ Idle
    /\ performance = None
    /\ pc = "startup"
    /\ configFile = NoConfig
    /\ overrideFile = Absent

Next ==
    \/ Startup
    \/ StartupDelay
    \/ CycleStart
    \/ LoopExit
    \/ PumpOn
    \/ Monitor
    \/ PumpOff
    \/ Compute
    \/ CycleError
    \/ ErrorPause
    \/ CoolDown
    \/ WaitSleep
    \/ WaitTick
    \/ PollApply
    \/ WaitDone
    \/ ShutdownOff
    \/ Signal
    \/ Cancel
    \/ DepositOpen
    \/ DepositWrite
    \/ TestMode

Spec == Init /\ [][Next]_vars

(* The wait phase of run_cycle on its own, lines 434-449, entered as line  *)
(* 436 is: a first cycle (or, with an override in force, a second one)     *)
(* that started from the base off-time has just been computed and saved.   *)
InitWait ==
    /\ \E wt \in {10, 90}, mo \in {None, 60},
          wd \in {NoWeather, Weather(RAIN, 10)} :
         LET r == calculate_dynamic_off_time(wt, BASE_OFF_TIME, mo, wd)
         IN  /\ performance = wt
             /\ manual_override = mo
             /\ weather_data = wd
             /\ next_off_time = r.ret
             /\ current_off_time = r.ret
             /\ cycle_count = (IF mo = None THEN 1 ELSE 2)
             /\ configFile = save_config(r.ret, mo)
             /\ snapshot = [current_off_time |-> r.ret,
                            manual_override |-> mo,
                            cycle_count |-> cycle_count]
    /\ override_command = NoCommand
    /\ pump_status = "off"
    /\ is_running = TRUE
    /\ elapsed = 0
    /\ command = Absent
    /\ notice = "complete"
    /\ sampled = TRUE
    /\ cancelled = FALSE
    /\ relay = [action |-> "off", ok |-> TRUE]
    /\ attempt = 0
    /\ backoff = 0
    /\ pause = 0
    /\ slept = 0
    /\ polls = 0
    /\ restarts = 0
    /\ deposits = 0
    /\ arg = NoArg
    /\ sampling = NoSampling
    /\ performance_data = NoSummary
    /\ cli = NoCli
    /\ pc = "wait"
    /\ overrideFile = Absent

NextWait ==
    \/ WaitSleep
    \/ WaitTick
    \/ PollApply
    \/ WaitDone
    \/ DepositOpen
    \/ DepositWrite
    \/ Signal
    \/ Cancel

SpecWait == InitWait /\ [][NextWait]_vars

(* the steps of the controller task itself: every await of run_controller  *)
(* and run_cycle returns (each request has a timeout, each sleep ends) and *)
(* the event loop then resumes the task.  The weather payloads are the     *)
(* well-formed ones of FetchedWeather, on which run_cycle raises nothing.  *)
ControllerStep ==
    \/ Startup
    \/ StartupDelay
    \/ CycleStart
    \/ LoopExit
    \/ PumpOn
    \/ Monitor
    \/ PumpOff
    \/ Compute
    \/ CoolDown
    \/ WaitSleep
    \/ WaitTick
    \/ PollApply
    \/ WaitDone
    \/ ShutdownOff

(* the controller process running for as long as it is left to, with the   *)
(* CLI, signals and cancellation as in Spec: the task is never suspended   *)
(* for ever, while the relay, the telemetry and the operator are free      *)
NextFair ==
    \/ ControllerStep
    \/ Signal
    \/ Cancel
    \/ DepositOpen
    \/ DepositWrite
    \/ TestMode

SpecFair == Init /\ [][NextFair]_vars /\ WF_vars(ControllerStep)

(* The controller process with restarts of the process *)
NextRestart == Next \/ Restart

SpecRestart == Init /\ [][NextRestart]_vars

----------------------------------------------------------------------------
(* Claims about the controller process, under Spec (C7 under SpecRestart)  *)

(* C7: at the start of the first cycle after a restart that follows at     *)
(* least one completed cycle, with the state file present and well-formed, *)
(* current_off_time and manual_override are the last persisted values.     *)
C7_RestartResumes ==
    (/\ restarts > 0
     /\ pc = "loop"
     /\ cycle_count = 0
     /\ configFile # NoConfig
     /\ configFile # Malformed
     /\ snapshot.cycle_count >= 1)
        => /\ current_off_time = JsonParse(configFile.current_off_time)
           /\ manual_override = JsonParse(configFile.manual_override)

(* C8 as stated: when the OFF command is not confirmed after its retries,  *)
(* run_cycle goes on to compute the next off-time from the performance     *)
(* data (the failure notice is only ever seen on the way to line 409).     *)
C8_OffFailureStillComputes ==
    notice = "failed_off" => pc = "compute"

(* C8: when the OFF command is not confirmed after its retries, run_cycle  *)
(* notifies the failure and returns without computing a next off-time:     *)
(* current_off_time, manual_override and the state file are left as they   *)
(* were, the performance data is dropped, and run_controller goes to its   *)
(* cool-down.                                                              *)
C8_OffFailureAborts ==
    [][ (pc = "pump_off" /\ notice' = "failed_off")
            => /\ attempt = RELAY_ATTEMPTS - 1
               /\ sampled
               /\ performance # None
               /\ pc' = "cooldown"
               /\ performance' = None
               /\ next_off_time' = None
               /\ UNCHANGED << current_off_time, manual_override, cycle_count,
                               configFile, snapshot >> ]_vars

C8_Witness ==
    /\ pc = "cooldown"
    /\ notice = "failed_off"
    /\ sampled
    /\ relay = [action |-> "off", ok |-> FALSE]
    /\ pump_status = "on"
    /\ current_off_time = BASE_OFF_TIME
    /\ configFile = NoConfig

(* positions of the controller task inside the loop of run_controller *)
LoopPcs ==
    {"loop", "pump_on", "monitor", "pump_off", "compute", "wait",
     "wait_sleep", "poll_apply", "cooldown", "error_sleep"}

(* C9: when the ON command is not confirmed after its retries, run_cycle   *)
(* returns before any sampling or off-time computation and notifies the    *)
(* failure; run_controller sleeps 300 s and, still running, starts a whole *)
(* new cycle; an exception raised in a cycle is followed by the error      *)
(* sleep and the loop again; the loop is left only when is_running is      *)
(* false (a stop command or a signal) or the task is cancelled, and        *)
(* run_controller reaches TERMINATED only from there or, before the loop   *)
(* is entered, when its startup sleep is cancelled (the single cycle of    *)
(* main's test mode, which ends the process whatever its outcome, is not   *)
(* run by run_controller).                                                 *)
C9_OnFailureCycleFatal ==
    [][ /\ (pc = "pump_on" /\ pc' \notin {"pump_on", "monitor"} /\ ~ cancelled')
            => /\ attempt = RELAY_ATTEMPTS - 1
               /\ notice' = "failed_on"
               /\ pc' = "cooldown"
               /\ ~ sampled'
               /\ performance' = None
               /\ next_off_time' = None
               /\ UNCHANGED << current_off_time, manual_override, configFile,
                               snapshot >>
        /\ (pc = "cooldown" /\ pc' # "cooldown" /\ ~ cancelled')
            => (pc' = "loop" /\ pause' = COOL_DOWN)
        /\ (pc = "loop" /\ pause = COOL_DOWN /\ is_running /\ pc' # "loop")
            => (pc' = "pump_on" /\ cycle_count' = cycle_count + 1 /\ attempt' = 0)
        /\ (pc = "error_sleep" /\ pc' # pc /\ ~ cancelled') => pc' = "loop"
        /\ (pc \in LoopPcs /\ pc' \notin LoopPcs)
            => (pc' = "stopping" /\ (~ is_running \/ cancelled'))
        /\ (pc # "stopping" /\ pc' = "stopping") => pc \in LoopPcs
        /\ (pc \notin TestPcs \cup {"terminated"} /\ pc' = "terminated")
            => (pc = "stopping" \/ (pc = "startup_delay" /\ cancelled')) ]_vars

(* a second cycle under way after the first one failed to switch ON *)
C9_Witness ==
    /\ pc = "pump_on"
    /\ cycle_count = 2
    /\ relay = [action |-> "on", ok |-> FALSE]
    /\ pump_status = "unknown"
    /\ is_running
    /\ snapshot = NoSnapshot

(* C10: every time check_override_commands has read a pending command,     *)
(* the override file is gone when the method returns.                      *)
C10_OneShot ==
    [][ (pc = "poll_apply" /\ pc' # "poll_apply") => overrideFile' = Absent ]_vars

(* C11: once a stop command is read at a wait-phase poll the running flag  *)
(* is cleared for good and the file removed; with the flag cleared the     *)
(* wait loop starts no further sleep and run_cycle returns, the loop of    *)
(* run_controller starts no cycle (so no pump-ON command follows) and      *)
(* exits; every exit from the loop leads to the final pump-OFF command,    *)
(* during which the relay is commanded nothing but OFF, and from the loop  *)
(* TERMINATED is reached only through that command: when it has returned,  *)
(* confirmed or not, or when a cancellation that arrives while it is in    *)
(* flight is swallowed, the relay state then being left as it was.         *)
C11_ShutdownOrdering ==
    [][ /\ (pc = "poll_apply" /\ command = STOP /\ pc' # pc)
            => (~ is_running' /\ pc' = "wait" /\ overrideFile' = Absent)
        /\ (pc # "startup" /\ ~ is_running) => ~ is_running'
        /\ (pc = "wait" /\ ~ is_running)
            => /\ pc' \in {"wait", "loop"}
               /\ pc' = "wait" => UNCHANGED << slept, polls, elapsed >>
        /\ (pc = "loop" /\ ~ is_running) => pc' \in {"loop", "stopping"}
        /\ (pc \notin {"startup", "pump_on"} /\ ~ is_running)
            => pc' # "pump_on"
        /\ (pc \in LoopPcs /\ pc' \notin LoopPcs)
            => (pc' = "stopping" /\ attempt' = 0)
        /\ pc = "stopping"
            => /\ pc' \in {"stopping", "terminated"}
               /\ relay' # relay => relay'.action = "off"
               /\ pump_status' \in {pump_status, "off"}
        /\ (pc \in LoopPcs \cup {"stopping"} /\ pc' = "terminated")
            => /\ pc = "stopping"
               /\ \/ relay'.action = "off"
                  \/ cancelled' /\ UNCHANGED << relay, pump_status >>
        /\ pc = "terminated" => pc' = "terminated" ]_vars

(* a stop command has been read with part of the wait still to go *)
C11_Witness ==
    /\ pc = "wait"
    /\ notice = "stop_requested"
    /\ ~ is_running
    /\ elapsed < next_off_time
    /\ overrideFile = Absent
    /\ pump_status = "off"

(* C12: a pump_now command read at a wait-phase poll ends the wait at that *)
(* poll: run_cycle returns with the request cleared and the file removed,  *)
(* leaving current_off_time, manual_override, the running flag, the cycle  *)
(* count and the pump as they were, and run_controller, still running,     *)
(* starts the next cycle; no request is pending while a wait is under way, *)
(* so a wait returns without a pump_now only when it is over.              *)
C12_PumpNowTruncates ==
    [][ /\ (pc = "poll_apply" /\ command = PUMP_NOW /\ pc' # pc)
            => /\ pc' = "loop"
               /\ notice' = "immediate"
               /\ override_command' = NoCommand
               /\ overrideFile' = Absent
               /\ UNCHANGED << current_off_time, manual_override, is_running,
                               cycle_count, pump_status >>
        /\ (pc = "loop" /\ notice = "immediate" /\ is_running /\ pc' # pc)
            => (pc' = "pump_on" /\ cycle_count' = cycle_count + 1)
        /\ pc' = "wait" => override_command' = NoCommand
        /\ (pc \in {"wait", "wait_sleep"} /\ pc' = "loop")
            => (pc = "wait" /\ ~ (elapsed < next_off_time /\ is_running))
      ]_vars

(* a wait has been cut short by pump_now and the controller is about to    *)
(* start the next cycle                                                    *)
C12_Witness ==
    /\ pc = "loop"
    /\ notice = "immediate"
    /\ is_running
    /\ override_command = NoCommand
    /\ overrideFile = Absent
    /\ snapshot.cycle_count = cycle_count
    /\ cycle_count = 1

(* C13: in every state of the controller process, whatever cycles and      *)
(* override commands came before, the stored current_off_time lies in      *)
(* [MIN_OFF_TIME, MAX_OFF_TIME].                                           *)
C13_StoredOffTimeInBounds ==
    /\ MIN_OFF_TIME <= current_off_time
    /\ current_off_time <= MAX_OFF_TIME

----------------------------------------------------------------------------
(* Claim about monitor_pump_performance, under SpecSampler                 *)

(* the successful readings among the poll results, in order *)
Successful(outcomes) == SelectSeq(outcomes, LAMBDA o : o # None)

(* how many entries of readings equal v *)
Occurrences(readings, v) ==
    Cardinality({i \in DOMAIN readings : readings[i] = v})

(* the total of readings, value by value *)
RECURSIVE TotalOf(_, _)
TotalOf(readings, values) ==
    IF values = {} THEN 0
    ELSE LET v == CHOOSE x \in values : TRUE
         IN  v * Occurrences(readings, v) + TotalOf(readings, values \ {v})

(* C14: when monitor_pump_performance has returned, the window was sampled *)
(* to its end whatever polls failed; working_time is one tick (0.5 s) per  *)
(* successful reading strictly above 200 W; avg, max and min power are     *)
(* those of all successful readings; with no successful reading the        *)
(* summary is all zero, and the next off-time is then the one computed for *)
(* a working_time of 5 s: the doubled off-time (times the weather factor), *)
(* limited, unless an override is set.                                     *)
C14_SamplerSummary ==
    pc \in {"sampled", "sampled_off", "sampler_done"}
        => LET outcomes == arg.outcomes
               ok == Successful(outcomes)
               values == {ok[i] : i \in DOMAIN ok}
               d == performance_data
           IN  /\ sampling.clock >= arg.duration
               /\ Len(outcomes) * 2 >= arg.duration
               /\ d.working_time =
                    Cardinality({i \in DOMAIN outcomes :
                                   outcomes[i] # None /\ outcomes[i] > 200})
               /\ d.power_readings = ok
               /\ ok # << >>
                    => /\ d.max_power \in values
                       /\ \A v \in values : v <= d.max_power
                       /\ d.min_power \in values
                       /\ \A v \in values : d.min_power <= v
                       /\ d.avg_power.num = TotalOf(ok, values)
                       /\ d.avg_power.den = Len(ok)
               /\ ok = << >>
                    => /\ d.working_time = 0
                       /\ d.max_power = 0
                       /\ d.min_power = 0
                       /\ d.avg_power.num = 0
               /\ (ok = << >> /\ pc = "sampler_done")
                    => /\ next_off_time =
                            calculate_dynamic_off_time(
                                10, arg.current_off_time, manual_override,
                                weather_data).ret
                       /\ (manual_override = None /\ weather_data = NoWeather)
                            => next_off_time = Clamp(2 * arg.current_off_time)
                       /\ (manual_override = None /\ weather_data # NoWeather)
                            => next_off_time = Clamp(arg.current_off_time)
                       /\ manual_override # None
                            => next_off_time = manual_override

(* every poll of a four-tick window failed and the off-time was doubled *)
C14_Witness ==
    /\ pc = "sampler_done"
    /\ arg.duration = 4
    /\ Len(arg.outcomes) = 4
    /\ \A i \in DOMAIN arg.outcomes : arg.outcomes[i] = None
    /\ performance_data.working_time = 0
    /\ performance_data.power_readings = << >>
    /\ arg.current_off_time = 420
    /\ next_off_time = 840

(* a window with a failed poll between an idle and a working reading *)
C14_WitnessMixed ==
    /\ pc = "sampled"
    /\ arg.outcomes = << 200, None, 1200 >>
    /\ performance_data.working_time = 1
    /\ performance_data.max_power = 1200
    /\ performance_data.min_power = 200
    /\ performance_data.avg_power = Quotient(1400, 2)

----------------------------------------------------------------------------
(* Further claims about the controller process, under Spec                 *)

(* positions of the controller task inside control_pump *)
RelayPcs == {"pump_on", "pump_off", "stopping"}

(* C15: control_pump makes at most 3 attempts; it returns success, with    *)
(* pump_status set to the commanded action, at the first confirmed         *)
(* attempt, and failure, with pump_status unchanged, when the third is not *)
(* confirmed either; and a further attempt is made only after the fixed    *)
(* backoff, whatever the failure was.                                      *)
C15_RetryPolicy ==
    [][ (pc \in RelayPcs /\ ~ cancelled' /\ (attempt' # attempt \/ pc' # pc))
            => /\ attempt < RELAY_ATTEMPTS
               /\ attempt' = attempt + 1
                    => (backoff' = RELAY_BACKOFF /\ pc' = pc
                        /\ UNCHANGED << pump_status, relay >>)
               /\ (pc' # pc /\ relay'.ok)
                    => pump_status' = (IF pc = "pump_on" THEN "on" ELSE "off")
               /\ (pc' # pc /\ ~ relay'.ok)
                    => (attempt = RELAY_ATTEMPTS - 1 /\ UNCHANGED pump_status)
      ]_vars

(* the command text is `wait <minutes>` with a decimal numeral *)
IsWaitMinutes(cmd) ==
    /\ Len(Split(cmd)) = 2
    /\ Split(cmd)[1] = WAIT
    /\ ParseInt(Split(cmd)[2]) # None

(* C16: consuming `wait <minutes>`, for any decimal <minutes>, 0 included, *)
(* sets manual_override to minutes * 60; a set manual_override changes     *)
(* only when a normal or another wait command is consumed; and every cycle *)
(* completed while it is set takes its next off-time from it.              *)
C16_WaitOverride ==
    [][ /\ (pc = "poll_apply" /\ pc' # pc /\ IsWaitMinutes(command))
            => manual_override' = ParseInt(Split(command)[2]) * 60
        /\ (manual_override # None /\ manual_override' # manual_override)
            => /\ pc = "poll_apply"
               /\ command = NORMAL \/ IsWaitMinutes(command)
        /\ (pc = "compute" /\ pc' = "wait" /\ manual_override # None)
            => /\ next_off_time' = manual_override
               /\ current_off_time' = manual_override ]_vars

(* C17 as stated: cycle_count changes only when a cycle completes, by      *)
(* exactly 1, and a cycle aborted on an unconfirmed ON or OFF leaves       *)
(* cycle_count, current_off_time and manual_override unchanged.            *)
C17_CountsCompletedCycles ==
    [][ /\ cycle_count' # cycle_count
            => /\ pc = "compute"
               /\ pc' = "wait"
               /\ cycle_count' = cycle_count + 1
        /\ (pc \in {"pump_on", "pump_off"} /\ pc' = "cooldown")
            => UNCHANGED << cycle_count, current_off_time, manual_override >>
      ]_vars

(* C17: cycle_count counts the cycles started: it changes only when        *)
(* run_cycle begins (in the loop of run_controller or as the single cycle  *)
(* of test mode), by exactly 1, and every run_cycle changes it; the        *)
(* abort of a cycle on an unconfirmed ON or OFF changes none of            *)
(* cycle_count, current_off_time and manual_override, so an aborted cycle  *)
(* stays counted: its number is above the one of the last saved state.     *)
C17_CountsStartedCycles ==
    [][ /\ cycle_count' # cycle_count
            => /\ \/ pc = "loop" /\ pc' = "pump_on"
                  \/ pc = "startup" /\ pc' = "test_on"
               /\ cycle_count' = cycle_count + 1
        /\ (pc = "loop" /\ pc' = "pump_on") => cycle_count' = cycle_count + 1
        /\ (pc = "startup" /\ pc' = "test_on")
            => cycle_count' = cycle_count + 1
        /\ ((pc \in {"pump_on", "pump_off"} /\ pc' = "cooldown")
            \/ (pc \in {"test_on", "test_off"} /\ pc' = "terminated"))
            => /\ UNCHANGED << cycle_count, current_off_time,
                               manual_override >>
               /\ cycle_count >= 1
               /\ snapshot # NoSnapshot => cycle_count > snapshot.cycle_count
      ]_vars

(* the second cycle was aborted on an unconfirmed OFF after a completed    *)
(* first cycle                                                             *)
C17_Witness ==
    /\ pc = "cooldown"
    /\ notice = "failed_off"
    /\ cycle_count = 2
    /\ snapshot.cycle_count = 1
    /\ current_off_time = snapshot.current_off_time
    /\ manual_override = snapshot.manual_override

----------------------------------------------------------------------------
(* Further claim about calculate_dynamic_off_time, under SpecPolicy        *)

(* C18: a call of calculate_dynamic_off_time leaves current_off_time,      *)
(* manual_override, the weather snapshot and cycle_count as they were, in  *)
(* every branch.                                                           *)
C18_PolicyPure ==
    pc = "policy_done"
        => /\ current_off_time = arg.current_off_time
           /\ manual_override = arg.manual_override
           /\ weather_data = arg.weather_data
           /\ cycle_count = 1

----------------------------------------------------------------------------
(* Claim about the wait phase of run_cycle, under SpecWait                 *)

(* C19: every step of the wait loop sleeps 30 s, or what is left of        *)
(* next_off_time when that is less, and is followed by one poll of the     *)
(* override file, none being made before the first sleep or apart from a   *)
(* sleep, and a sleep starts only while time is left; a wait that          *)
(* runs to its end with the controller still running (no stop, pump_now,   *)
(* signal or cancellation) has slept exactly next_off_time seconds and     *)
(* polled ceil(next_off_time / 30) times.                                  *)
C19_WaitDuration ==
    [][ /\ (pc = "wait_sleep" /\ pc' # "wait_sleep" /\ ~ cancelled')
            => /\ pc' \in {"wait", "poll_apply"}
               /\ slept < next_off_time
               /\ polls' = polls + 1
               /\ slept' - slept =
                    (IF next_off_time - slept >= 30 THEN 30
                     ELSE next_off_time - slept)
               /\ slept' <= next_off_time
               /\ polls = 0 <=> slept = 0
        /\ (pc = "wait" /\ pc' = "wait_sleep")
            => (is_running /\ slept < next_off_time)
        /\ (pc \in {"wait", "poll_apply"} /\ pc' # "loop")
            => UNCHANGED << slept, polls >>
        /\ (pc = "wait" /\ pc' = "loop" /\ is_running)
            => /\ slept = next_off_time
               /\ polls = (next_off_time + 29) \div 30
               /\ polls * 30 >= next_off_time
               /\ (polls - 1) * 30 < next_off_time ]_vars

(* a wait of 588 s is over: 19 sleeps of 30 s and one of 18 s *)
C19_Witness ==
    /\ pc = "wait"
    /\ is_running
    /\ next_off_time = 588
    /\ slept = 588
    /\ polls = 20
    /\ elapsed = 600

----------------------------------------------------------------------------
(* Claim about the override file shared with the CLI, under Spec           *)

(* C20: when check_override_commands removes the override file, the        *)
(* command in the file is the one it read, and the text a CLI process      *)
(* writes ends in the override file: a command deposited by the CLI is     *)
(* never removed unread.                                                   *)
C20_NoLostDeposit ==
    [][ /\ (pc = "poll_apply" /\ overrideFile # Absent
            /\ overrideFile' = Absent)
            => Lower(Strip(overrideFile)) = command
        /\ (cli # NoCli /\ cli' = NoCli) => overrideFile' = cli.command
      ]_vars

----------------------------------------------------------------------------
(* Claim about the stop command, under SpecFair                            *)

----------------------------------------------------------------------------
(* Claim about the pump during the wait, under Spec                        *)

(* C22: while run_cycle is in its wait phase the last relay command        *)
(* completed is a confirmed OFF and pump_status is "off"; the wait is      *)
(* entered only from the computation that follows a confirmed OFF, never   *)
(* after an unconfirmed one; and from a confirmed ON the controller only   *)
(* samples telemetry before it attempts the OFF command.                   *)
C22_PumpOffWhileWaiting ==
    [][ /\ pc \in {"wait", "wait_sleep", "poll_apply"}
            => /\ relay = [action |-> "off", ok |-> TRUE]
               /\ pump_status = "off"
               /\ sampled
               /\ notice # "failed_off"
        /\ (pc' \in {"wait", "wait_sleep", "poll_apply"}
            /\ pc \notin {"wait", "wait_sleep", "poll_apply"})
            => (pc = "compute" /\ relay = [action |-> "off", ok |-> TRUE])
        /\ (pc # "compute" /\ pc' = "compute")
            => (pc = "pump_off" /\ relay' = [action |-> "off", ok |-> TRUE])
        /\ (pc = "pump_off" /\ notice' = "failed_off") => pc' # "compute"
        /\ pc = "monitor"
            => /\ relay = [action |-> "on", ok |-> TRUE]
               /\ pump_status = "on"
               /\ ~ sampled
               /\ pc' \in {"monitor", "pump_off", "stopping"}
               /\ pc' = "pump_off" => (sampled' /\ performance' # None)
               /\ UNCHANGED << relay, pump_status, current_off_time,
                               manual_override, configFile, next_off_time,
                               elapsed, polls, command >>
        /\ (pc # "pump_off" /\ pc' = "pump_off")
            => (pc = "monitor" /\ pump_status = "on") ]_vars

(* the controller waits, several polls into the wait, with the pump off *)
C22_Witness ==
    /\ pc = "wait"
    /\ polls >= 2
    /\ relay = [action |-> "off", ok |-> TRUE]
    /\ pump_status = "off"
    /\ is_running
    /\ cycle_count = 2

====
